---- MODULE Spec2Model ----
(***************************************************************************)
(* Model of ListingScraper (packages/scraper/src/base/listing.scraper.ts)  *)
(* as driven by LinkedinScraper (packages/scraper/src/linkedin/scraper.ts).*)
(*                                                                         *)
(* JavaScript runs one synchronous segment at a time: an action of this    *)
(* model is the resumption of one awaited promise, and it executes the     *)
(* code from that await up to the next await of the same async function.   *)
(* The collaborators (fetchList, fetchItem, the sqlite driver, fs) answer  *)
(* with a value chosen by \E when their promise settles.                   *)
(***************************************************************************)
EXTENDS Integers, Sequences, FiniteSets, TLC

\* ------------------------------------------------------------------ bounds
MaxTotalPages == 2      \* largest pagination.totalPages a response reports
MaxConcurrency == 2     \* largest user.requestsConcurrency a response reports
MaxElements == 2        \* longest elements array of a list response
MaxPagesOption == 1     \* the non-zero value tried for options.maxPages

\* --------------------------------------------------------- program constants
PaymentRequired == 402  \* the quota-exceeded status

\* The identity column of CREATE TABLE (line 225).
IdentityColumn == "db_id"

VARIABLES
  options,        \* ListingScraperOptions: scrapeDetails, outputType, maxPages, skipItemRequestsStats
  pc,             \* position of scrapeStart
  returned,       \* what scrapeStart returned: "none" (not yet), "stats", "undefined"
  totalPages,     \* let totalPages of scrapeStart
  concurrency,    \* const concurrency of scrapeStart
  stats,          \* this.stats
  done,           \* this.done
  error,          \* this.error
  task,           \* the scrapePage invocations, by page
  pageQ,          \* scrapePageQueue: submitted page tasks waiting for a slot
  writeQ,         \* onItemScraped queue: submitted writes waiting for the slot
  writeActive,    \* the onItemScraped body in progress, <<>> when none
  sqliteOpen,     \* this.sqliteDatabaseOpenPromise: "null", "pending", "resolved"
  db,             \* this.db: "null", "open", "closed"
  inMemoryItems,  \* this.inMemoryItems
  rows,           \* rows of the sqlite table
  columns,        \* column names of the sqlite table
  jsonFile,       \* the document written by fs.outputJson: "none", "writing", "written"
  hist            \* history of collaborator calls (observation only)

vars == <<options, pc, returned, totalPages, concurrency, stats, done,
          error, task, pageQ, writeQ, writeActive, sqliteOpen, db, inMemoryItems,
          rows, columns, jsonFile, hist>>

Pages == 1..MaxTotalPages

\* ------------------------------------------------------------- data shapes
\* A short item: id is "" when the item carries no id.
Items == {[id |-> "a"], [id |-> ""]}

RECURSIVE SeqsUpTo(_, _)
SeqsUpTo(S, n) ==
  IF n = 0 THEN {<<>>}
  ELSE LET shorter == SeqsUpTo(S, n - 1)
       IN shorter \cup {Append(s, x) : s \in {t \in shorter : Len(t) = n - 1}, x \in S}

\* What options.fetchList({page}) settles to, after the .catch of fetchPage:
\* null (nil), a quota-exceeded response, or a list response.
NullList ==
  [nil |-> TRUE, status |-> 0, id |-> FALSE, hasElements |-> FALSE,
   elements |-> <<>>, totalPages |-> 0, requestsConcurrency |-> 0]

QuotaList ==
  [nil |-> FALSE, status |-> PaymentRequired, id |-> FALSE, hasElements |-> FALSE,
   elements |-> <<>>, totalPages |-> 0, requestsConcurrency |-> 0]

\* pagination and user are read from the page-1 response only.
OkLists(first) ==
  {[nil |-> FALSE, status |-> 200, id |-> i, hasElements |-> TRUE,
    elements |-> els, totalPages |-> tp, requestsConcurrency |-> rc] :
      i \in BOOLEAN, els \in SeqsUpTo(Items, MaxElements),
      tp \in (IF first THEN 0..MaxTotalPages ELSE {0}),
      rc \in (IF first THEN 0..MaxConcurrency ELSE {0})}
  \cup
  {[nil |-> FALSE, status |-> 200, id |-> i, hasElements |-> FALSE,
    elements |-> <<>>, totalPages |-> tp, requestsConcurrency |-> rc] :
      i \in BOOLEAN,
      tp \in (IF first THEN 0..MaxTotalPages ELSE {0}),
      rc \in (IF first THEN 0..MaxConcurrency ELSE {0})}

ListResponses(first) == {NullList, QuotaList} \cup OkLists(first)

\* The element of a successful item response (it carries the id).
DetailElement == [id |-> "a"]

\* The shapes a detail element comes in: its field names differ.
DetailElements == {DetailElement, [id |-> "a", name |-> "n"]}

\* What options.fetchItem({item}) settles to, after the ?.catch of
\* scrapePageItems: null, a quota-exceeded response, or an item response.
\* element tells whether the response has an element, payload is that element.
NullItem ==
  [nil |-> TRUE, status |-> 0, element |-> FALSE, payload |-> DetailElement,
   id |-> FALSE, skipped |-> FALSE]

QuotaItem ==
  [nil |-> FALSE, status |-> PaymentRequired, element |-> FALSE,
   payload |-> DetailElement, id |-> FALSE, skipped |-> FALSE]

ItemResponses ==
  {NullItem, QuotaItem}
  \cup {[nil |-> FALSE, status |-> 200, element |-> FALSE, payload |-> DetailElement,
         id |-> i, skipped |-> sk] : i \in BOOLEAN, sk \in BOOLEAN}
  \cup {[nil |-> FALSE, status |-> 200, element |-> TRUE, payload |-> e,
         id |-> i, skipped |-> sk] :
          e \in DetailElements, i \in BOOLEAN, sk \in BOOLEAN}

\* The option records a run is constructed with.  skipItemRequestsStats is
\* set by scrapePosts alone, which fixes maxPages as well.
OptionSets ==
  [scrapeDetails : BOOLEAN, outputType : {"json", "sqlite"},
   maxPages : {0, MaxPagesOption}, skipItemRequestsStats : {FALSE}]
  \cup
  [scrapeDetails : BOOLEAN, outputType : {"json", "sqlite"},
   maxPages : {MaxPagesOption}, skipItemRequestsStats : {TRUE}]

\* A scrapePage invocation: where it stands, the scrapedList argument it was
\* submitted with, and the elements its for loop has yet to visit.
IdleTask == [st |-> "idle", scrapedList |-> NullList, rest |-> <<>>]

NoHist ==
  [fetchList |-> [p \in Pages |-> 0],   \* fetchList calls issued, by page
   fetchItem |-> 0,                     \* fetchItem calls issued
   elementsSeen |-> 0,                  \* elements in the list responses received
   listCounted |-> 0,                   \* list fetches counted in stats.requests
   quota |-> FALSE,                     \* a 402 response has been received
   listAfterQuota |-> FALSE,            \* fetchList issued after a 402 response
   itemAfterDone |-> FALSE,             \* fetchItem issued while this.done
   uniform |-> -2,                      \* see Uniform
   writes |-> 0,                        \* calls of onItemScraped
   openFailed |-> FALSE,                \* createSqliteDatabase caught an error
   alterExisting |-> FALSE,             \* ADD COLUMN issued for a column that exists
   last |-> "none",                     \* the latest settled fetch: "null list", "null item", "other"
   totalPages |-> 0,                    \* pagination.totalPages of the page-1 response
   requestsConcurrency |-> 0]           \* user.requestsConcurrency of the page-1 response

Init ==
  /\ options \in OptionSets
  /\ pc = "start"
  /\ returned = "none"
  /\ totalPages = 0
  /\ concurrency = 0
  /\ stats = [pages |-> 0, pagesSuccess |-> 0, items |-> 0, itemsSuccess |-> 0,
              requests |-> 0]
  /\ done = FALSE
  /\ error = "null"
  /\ task = [p \in Pages |-> IdleTask]
  /\ pageQ = <<>>
  /\ writeQ = <<>>
  /\ writeActive = <<>>
  /\ sqliteOpen = "null"
  /\ db = "null"
  /\ inMemoryItems = <<>>
  /\ rows = <<>>
  /\ columns = {}
  /\ jsonFile = "none"
  /\ hist = NoHist

\* ------------------------------------------------- the state a task touches
\* The fields of the scraper that a synchronous segment of scrapePage,
\* fetchPage or scrapePageItems reads and writes, as one record.
Cur ==
  [stats |-> stats, done |-> done, error |-> error, task |-> task,
   writeQ |-> writeQ, hist |-> hist]

Becomes(m) ==
  /\ stats' = m.stats
  /\ done' = m.done
  /\ error' = m.error
  /\ task' = m.task
  /\ writeQ' = m.writeQ
  /\ hist' = m.hist

\* Page tasks that have started and not yet finished.
Active(t) == {p \in Pages : t[p].st \in {"fetchList", "fetchItem", "write"}}

Running(t) == Cardinality(Active(t))

\* hist.uniform: -2 before any list response; k >= 0 while every list response
\* so far was a 200 response carrying exactly k elements, each with an id;
\* -1 otherwise.
Uniform(u, r) ==
  IF /\ ~r.nil
     /\ r.status = 200
     /\ r.hasElements
     /\ \A j \in 1..Len(r.elements) : r.elements[j].id # ""
     /\ u \in {-2, Len(r.elements)}
  THEN Len(r.elements)
  ELSE -1

\* ------------------------------------------------------------- scrapeStart
\* TotalPages without the maxPages ceiling of lines 52-54.
TotalPagesUncapped(fp) == IF fp.nil THEN 0 ELSE fp.totalPages

\* let totalPages = firstPage?.pagination?.totalPages || 0, capped by maxPages
TotalPages(fp) ==
  LET reported == IF fp.nil THEN 0 ELSE fp.totalPages
  IN IF options.maxPages # 0 /\ reported > options.maxPages
     THEN options.maxPages
     ELSE reported

\* Concurrency reading pagination.totalPages in place of requestsConcurrency.
ConcurrencyFromTotalPages(fp) ==
  IF fp.nil \/ fp.totalPages = 0 THEN 1 ELSE fp.totalPages

\* const concurrency = firstPage?.user?.requestsConcurrency || 1
Concurrency(fp) ==
  IF fp.nil \/ fp.requestsConcurrency = 0 THEN 1 ELSE fp.requestsConcurrency

\* ---------------------------------------------------------------- fetchPage
\* The value fetchPage returns for the settled result of fetchList.
FetchPageValue(result) ==
  IF ~result.nil /\ result.status = PaymentRequired THEN NullList ELSE result

\* FetchPageState with the two page counters swapped: pagesSuccess counts
\* every page and pages only those with an id.
FetchPageStateSwapped(m, result) ==
  IF ~result.nil /\ result.status = PaymentRequired
  THEN [m EXCEPT !.done = TRUE,
                 !.error = "quota error",
                 !.hist.quota = TRUE,
                 !.hist.last = "other",
                 !.hist.uniform = Uniform(@, result)]
  ELSE [m EXCEPT !.stats.pagesSuccess = @ + 1,
                 !.stats.requests = @ + 1,
                 !.stats.pages = IF ~result.nil /\ result.id THEN @ + 1 ELSE @,
                 !.hist.listCounted = @ + 1,
                 !.hist.elementsSeen = @ + Len(result.elements),
                 !.hist.last = IF result.nil THEN "null list" ELSE "other",
                 !.hist.uniform = Uniform(@, result)]

\* FetchPageState taking a null result for a fatal one.
FetchPageStateNullFatal(m, result) ==
  IF result.nil \/ result.status = PaymentRequired
  THEN [m EXCEPT !.done = TRUE,
                 !.error = "quota error",
                 !.hist.quota = ~result.nil,
                 !.hist.last = IF result.nil THEN "null list" ELSE "other",
                 !.hist.uniform = Uniform(@, result)]
  ELSE [m EXCEPT !.stats.pages = @ + 1,
                 !.stats.requests = @ + 1,
                 !.stats.pagesSuccess = IF result.id THEN @ + 1 ELSE @,
                 !.hist.listCounted = @ + 1,
                 !.hist.elementsSeen = @ + Len(result.elements),
                 !.hist.last = "other",
                 !.hist.uniform = Uniform(@, result)]

\* The effect of fetchPage on the scraper once fetchList has settled.
FetchPageState(m, result) ==
  IF ~result.nil /\ result.status = PaymentRequired
  THEN [m EXCEPT !.done = TRUE,
                 !.error = "quota error",
                 !.hist.quota = TRUE,
                 !.hist.last = "other",
                 !.hist.uniform = Uniform(@, result)]
  ELSE [m EXCEPT !.stats.pages = @ + 1,
                 !.stats.requests = @ + 1,
                 !.stats.pagesSuccess = IF ~result.nil /\ result.id THEN @ + 1 ELSE @,
                 !.hist.listCounted = @ + 1,
                 !.hist.elementsSeen = @ + Len(result.elements),
                 !.hist.last = IF result.nil THEN "null list" ELSE "other",
                 !.hist.uniform = Uniform(@, result)]

\* ---------------------------------------------------------- scrapePageItems
\* The promise returned by scrapePage for page p resolves.
Resolve(m, p) == [m EXCEPT !.task[p] = [IdleTask EXCEPT !.st = "finished"]]

\* itemDetails of the else branch (scrapeDetails off): built from the short item.
Synthesized(item) ==
  [nil |-> FALSE, status |-> 200, element |-> TRUE, payload |-> item,
   id |-> item.id # "", skipped |-> FALSE]

\* CountsAsRequest without the scrapeDetails condition.
CountsAsRequestAlways(d) == ~d.skipped

\* Whether the item counts as a request (the condition of line 187).
CountsAsRequest(d) == options.scrapeDetails /\ ~d.skipped

RECURSIVE Iterate(_, _)
RECURSIVE Count(_, _, _, _)

\* Count calling onItemScraped without awaiting it.
CountNoAwait(m, p, item, d) ==
  LET m1 == [m EXCEPT !.stats.items = @ + 1,
                      !.stats.requests = IF CountsAsRequest(d) THEN @ + 1 ELSE @]
  IN IF d.element /\ d.id
     THEN Iterate([m1 EXCEPT !.stats.itemsSuccess = @ + 1,
                             !.hist.writes = @ + 1,
                             !.writeQ = Append(@, [page |-> p, element |-> d.payload])], p)
     ELSE Iterate(m1, p)

\* Count submitting the write of a resolved item without counting the item
\* in itemsSuccess.
CountUncounted(m, p, item, d) ==
  LET m1 == [m EXCEPT !.stats.items = @ + 1,
                      !.stats.requests = IF CountsAsRequest(d) THEN @ + 1 ELSE @]
  IN IF d.element /\ d.id
     THEN [m1 EXCEPT !.hist.writes = @ + 1,
                     !.writeQ = Append(@, [page |-> p, element |-> d.payload]),
                     !.task[p].st = "write"]
     ELSE Iterate(m1, p)

\* Lines 185-195: itemDetails d of the current element item of page p is known
\* and is not a quota response.  Runs up to the await of onItemScraped, or on
\* to the next element.
Count(m, p, item, d) ==
  LET m1 == [m EXCEPT !.stats.items = @ + 1,
                      !.stats.requests = IF CountsAsRequest(d) THEN @ + 1 ELSE @]
  IN IF d.element /\ d.id
     THEN [m1 EXCEPT !.stats.itemsSuccess = @ + 1,
                     !.hist.writes = @ + 1,
                     !.writeQ = Append(@, [page |-> p, element |-> d.payload]),
                     !.task[p].st = "write"]
     ELSE Iterate(m1, p)

\* The for loop of scrapePageItems taking the next element of page p, up to
\* its first await; past the last element scrapePageItems returns and
\* scrapePage (lines 121-130) ends.
Iterate(m, p) ==
  IF m.task[p].rest = <<>>
  THEN Resolve(m, p)
  ELSE LET item == Head(m.task[p].rest)
           m1 == [m EXCEPT !.task[p].rest = Tail(@)]
       IN IF options.scrapeDetails
          THEN [m1 EXCEPT !.task[p].st = "fetchItem",
                          !.hist.fetchItem = @ + 1,
                          !.hist.itemAfterDone = @ \/ m.done]
          ELSE Count(m1, p, item, Synthesized(item))

\* ---------------------------------------------------------------- scrapePage
\* AfterList leaving the page task unsettled when this.done is set.
AfterListStuck(m, p, list) ==
  IF m.done
  THEN [m EXCEPT !.task[p].st = "stuck"]
  ELSE IF ~list.nil /\ list.hasElements
       THEN Iterate([m EXCEPT !.task[p].rest = list.elements,
                              !.task[p].scrapedList = NullList], p)
       ELSE Resolve(m, p)

\* Lines 114-120: the list of page p is known.
AfterList(m, p, list) ==
  IF m.done
  THEN Resolve(m, p)
  ELSE IF ~list.nil /\ list.hasElements
       THEN Iterate([m EXCEPT !.task[p].rest = list.elements,
                              !.task[p].scrapedList = NullList], p)
       ELSE Resolve(m, p)

\* StartPage without the this.done check of line 112.
StartPageUnchecked(m, p) ==
  IF ~m.task[p].scrapedList.nil
  THEN AfterList(m, p, m.task[p].scrapedList)
  ELSE [m EXCEPT !.task[p].st = "fetchList",
                 !.hist.fetchList[p] = @ + 1,
                 !.hist.listAfterQuota = @ \/ m.hist.quota]

\* Lines 112-113: scrapePage starts for page p and runs to its first await.
StartPage(m, p) ==
  IF m.done
  THEN Resolve(m, p)
  ELSE IF ~m.task[p].scrapedList.nil
       THEN AfterList(m, p, m.task[p].scrapedList)
       ELSE [m EXCEPT !.task[p].st = "fetchList",
                      !.hist.fetchList[p] = @ + 1,
                      !.hist.listAfterQuota = @ \/ m.hist.quota]

\* ------------------------------------------------------------------ actions
\* The scrapedList argument scrapeStart passes for page p (line 86).
ScrapedList(p, fp) == IF p = 1 THEN fp ELSE NullList

\* scrapeStart is called: fetchPage({page: 1}) issues fetchList.
ScrapeStart ==
  /\ pc = "start"
  /\ pc' = "probe"
  /\ hist' = [hist EXCEPT !.fetchList[1] = @ + 1]
  /\ UNCHANGED <<options, returned, totalPages, concurrency, stats, done,
                 error, task, pageQ, writeQ, writeActive, sqliteOpen, db,
                 inMemoryItems, rows, columns, jsonFile>>

\* The page-1 fetch settles: lines 49-88 of scrapeStart.
ProbeDone ==
  /\ pc = "probe"
  /\ \E result \in ListResponses(TRUE) :
       LET m1 == FetchPageState(Cur, result)
           fp == FetchPageValue(result)
           tp == TotalPages(fp)
       IN /\ totalPages' = tp
          /\ concurrency' = Concurrency(fp)
          /\ error' = m1.error
          /\ hist' = [m1.hist EXCEPT !.totalPages = IF fp.nil THEN 0 ELSE fp.totalPages,
                                     !.requestsConcurrency =
                                        IF fp.nil THEN 0 ELSE fp.requestsConcurrency]
          /\ writeQ' = m1.writeQ
          /\ IF fp.nil \/ tp = 0
             THEN /\ done' = TRUE
                  /\ stats' = m1.stats
                  /\ pc' = "returned"
                  /\ returned' = "undefined"
                  /\ UNCHANGED <<task, pageQ, sqliteOpen>>
             ELSE /\ done' = m1.done
                  /\ stats' = [m1.stats EXCEPT !.pages = 1, !.pagesSuccess = 1]
                  /\ sqliteOpen' = IF options.outputType = "sqlite" THEN "pending" ELSE "null"
                  /\ pageQ' = [p \in 1..tp |-> p]
                  /\ task' = [p \in Pages |->
                                IF p <= tp
                                THEN [IdleTask EXCEPT !.st = "queued",
                                                      !.scrapedList = ScrapedList(p, fp)]
                                ELSE IdleTask]
                  /\ pc' = "await"
                  /\ UNCHANGED returned
  /\ UNCHANGED <<options, writeActive, db, inMemoryItems, rows, columns, jsonFile>>

\* scrapePageQueue gives the next submitted page a free slot.
AdmitPage ==
  /\ pageQ # <<>>
  /\ Running(task) < concurrency
  /\ Becomes(StartPage(Cur, Head(pageQ)))
  /\ pageQ' = Tail(pageQ)
  /\ UNCHANGED <<options, pc, returned, totalPages, concurrency,
                 writeActive, sqliteOpen, db, inMemoryItems, rows, columns, jsonFile>>

\* fetchList of page p settles inside fetchPage; scrapePage goes on.
FetchListDone(p) ==
  /\ task[p].st = "fetchList"
  /\ \E result \in ListResponses(FALSE) :
       Becomes(AfterList(FetchPageState(Cur, result), p, FetchPageValue(result)))
  /\ UNCHANGED <<options, pc, returned, totalPages, concurrency, pageQ,
                 writeActive, sqliteOpen, db, inMemoryItems, rows, columns, jsonFile>>

\* FetchItemDone leaving scrapePageItems on a null itemDetails.
FetchItemDoneNullReturns(p) ==
  /\ task[p].st = "fetchItem"
  /\ \E d \in ItemResponses :
       IF ~d.nil /\ d.status = PaymentRequired
       THEN Becomes(Resolve([Cur EXCEPT !.done = TRUE,
                                        !.error = "quota error",
                                        !.hist.quota = TRUE,
                                        !.hist.last = "other"], p))
       ELSE IF d.nil
            THEN Becomes(Resolve([Cur EXCEPT !.hist.last = "null item"], p))
            ELSE Becomes(Count([Cur EXCEPT !.hist.last = "other"], p, DetailElement, d))
  /\ UNCHANGED <<options, pc, returned, totalPages, concurrency, pageQ,
                 writeActive, sqliteOpen, db, inMemoryItems, rows, columns, jsonFile>>

\* fetchItem of the current element of page p settles: lines 165-195.
FetchItemDone(p) ==
  /\ task[p].st = "fetchItem"
  /\ \E d \in ItemResponses :
       IF ~d.nil /\ d.status = PaymentRequired
       THEN Becomes(Resolve([Cur EXCEPT !.done = TRUE,
                                        !.error = "quota error",
                                        !.hist.quota = TRUE,
                                        !.hist.last = "other"], p))
       ELSE Becomes(Count([Cur EXCEPT !.hist.last = IF d.nil THEN "null item"
                                                    ELSE "other"],
                          p, DetailElement, d))
  /\ UNCHANGED <<options, pc, returned, totalPages, concurrency, pageQ,
                 writeActive, sqliteOpen, db, inMemoryItems, rows, columns, jsonFile>>

\* createSqliteDatabase whose catch sets neither this.done nor this.error.
OpenStoreDoneSilent ==
  /\ sqliteOpen = "pending"
  /\ sqliteOpen' = "resolved"
  /\ \E outcome \in {"ok", "open failed", "exec failed"} :
       /\ db' = CASE outcome = "ok" -> "open"
                  [] outcome = "open failed" -> "null"
                  [] outcome = "exec failed" -> "no table"
       /\ columns' = IF outcome = "ok" THEN {IdentityColumn} ELSE columns
       /\ hist' = [hist EXCEPT !.openFailed = outcome # "ok"]
  /\ UNCHANGED <<options, pc, returned, totalPages, concurrency, stats, done, error,
                 task, pageQ, writeQ, writeActive, inMemoryItems, rows, jsonFile>>

\* createSqliteDatabase settles: the table is ready, or open/ensureDir threw
\* (this.db stays null), or CREATE TABLE threw (this.db is set, no table).
OpenStoreDone ==
  /\ sqliteOpen = "pending"
  /\ sqliteOpen' = "resolved"
  /\ \E outcome \in {"ok", "open failed", "exec failed"} :
       /\ db' = CASE outcome = "ok" -> "open"
                  [] outcome = "open failed" -> "null"
                  [] outcome = "exec failed" -> "no table"
       /\ columns' = IF outcome = "ok" THEN {IdentityColumn} ELSE columns
       /\ done' = IF outcome = "ok" THEN done ELSE TRUE
       /\ error' = IF outcome = "ok" THEN error ELSE "sqlite error"
       /\ hist' = [hist EXCEPT !.openFailed = outcome # "ok"]
  /\ UNCHANGED <<options, pc, returned, totalPages, concurrency, stats,
                 task, pageQ, writeQ, writeActive, inMemoryItems, rows, jsonFile>>

\* A write taken from the onItemScraped queue: known is the result of its
\* PRAGMA table_info once read is set.
Started(w) == [page |-> w.page, element |-> w.element, read |-> FALSE, known |-> {}]

\* The onItemScraped queue with two slots.
WriteBeginTwoSlots ==
  /\ Len(writeActive) < 2
  /\ writeQ # <<>>
  /\ writeActive' = Append(writeActive, Started(Head(writeQ)))
  /\ writeQ' = Tail(writeQ)
  /\ inMemoryItems' = IF options.outputType = "json"
                      THEN Append(inMemoryItems, Head(writeQ).element)
                      ELSE inMemoryItems
  /\ UNCHANGED <<options, pc, returned, totalPages, concurrency, stats,
                 done, error, task, pageQ, sqliteOpen, db, rows, columns, jsonFile, hist>>

\* The onItemScraped queue (one slot) starts the next write: the json push,
\* or insertSqliteItem up to its await of sqliteDatabaseOpenPromise.
WriteBegin ==
  /\ writeActive = <<>>
  /\ writeQ # <<>>
  /\ writeActive' = <<Started(Head(writeQ))>>
  /\ writeQ' = Tail(writeQ)
  /\ inMemoryItems' = IF options.outputType = "json"
                      THEN Append(inMemoryItems, Head(writeQ).element)
                      ELSE inMemoryItems
  /\ UNCHANGED <<options, pc, returned, totalPages, concurrency, stats,
                 done, error, task, pageQ, sqliteOpen, db, rows, columns, jsonFile, hist>>

\* Object.keys(item) of a stored element, and the order they come in.
Keys(element) == DOMAIN element

KeyOrder == <<"id", "name">>

\* The keys the for loop of lines 239-243 visits before key k.
KeysBefore(k) ==
  {KeyOrder[i] : i \in {j \in DOMAIN KeyOrder : \E n \in DOMAIN KeyOrder :
                                                  KeyOrder[n] = k /\ j < n}}

\* The key of S the loop visits first.
FirstKey(S) == CHOOSE k \in S : KeysBefore(k) \cap S = {}

\* insertSqliteItem taking no column for known.
WriteReadNoNames ==
  /\ writeActive # <<>>
  /\ options.outputType = "sqlite"
  /\ sqliteOpen = "resolved"
  /\ db # "null"
  /\ ~writeActive[1].read
  /\ writeActive' = [writeActive EXCEPT ![1].read = TRUE, ![1].known = {}]
  /\ UNCHANGED <<options, pc, returned, totalPages, concurrency, stats, done, error,
                 task, pageQ, writeQ, sqliteOpen, db, inMemoryItems, rows, columns,
                 jsonFile, hist>>

\* insertSqliteItem, lines 234-237: the open promise has resolved and the
\* column names of the table are read (none when the table does not exist).
WriteRead ==
  /\ writeActive # <<>>
  /\ options.outputType = "sqlite"
  /\ sqliteOpen = "resolved"
  /\ db # "null"
  /\ ~writeActive[1].read
  /\ writeActive' = [writeActive EXCEPT ![1].read = TRUE, ![1].known = columns]
  /\ UNCHANGED <<options, pc, returned, totalPages, concurrency, stats, done, error,
                 task, pageQ, writeQ, sqliteOpen, db, inMemoryItems, rows, columns,
                 jsonFile, hist>>

\* The write in progress ends, and the page task that awaited it goes on with
\* its next element.  With sqlite, lines 239-258: a column is added for each
\* key not among the names read, then the row is inserted.  Whatever throws
\* (this.db null, no table, a column that exists, a failing statement) is
\* caught and logged by onItemScraped: the row is dropped, the columns added
\* before the throw stay.
WriteEnd ==
  /\ writeActive # <<>>
  /\ LET w == writeActive[1]
         missing == Keys(w.element) \ w.known
     IN \/ /\ options.outputType = "json"
           /\ UNCHANGED <<rows, columns>>
           /\ Becomes(Iterate(Cur, w.page))
        \/ /\ options.outputType = "sqlite"
           /\ sqliteOpen = "resolved"
           /\ db = "null"
           /\ UNCHANGED <<rows, columns>>
           /\ Becomes(Iterate(Cur, w.page))
        \/ /\ options.outputType = "sqlite"
           /\ w.read
           /\ \E fail \in missing \cup {"insert", "none"} :
                LET throwing == IF db = "open"
                                THEN {k \in missing : k = fail \/ k \in columns}
                                ELSE missing
                    first == FirstKey(throwing)
                    added == IF db # "open" THEN {}
                             ELSE IF throwing = {} THEN missing
                             ELSE missing \cap KeysBefore(first)
                    existing == db = "open" /\ throwing # {} /\ first \in columns
                IN /\ columns' = columns \cup added
                   /\ rows' = IF db = "open" /\ throwing = {} /\ fail = "none"
                              THEN Append(rows, w.element)
                              ELSE rows
                   /\ Becomes(Iterate([Cur EXCEPT !.hist.alterExisting = @ \/ existing],
                                      w.page))
  /\ writeActive' = Tail(writeActive)
  /\ UNCHANGED <<options, pc, returned, totalPages, concurrency, pageQ,
                 sqliteOpen, db, inMemoryItems, jsonFile>>

\* Promise.all(promises) resolves and finalize() runs to its await.
Finalize ==
  /\ pc = "await"
  /\ \A p \in 1..totalPages : task[p].st = "finished"
  /\ jsonFile' = IF options.outputType = "json" THEN "writing" ELSE jsonFile
  /\ IF db \in {"open", "no table"}
     THEN pc' = "closing" /\ UNCHANGED returned
     ELSE pc' = "returned" /\ returned' = "stats"
  /\ UNCHANGED <<options, totalPages, concurrency, stats, done, error,
                 task, pageQ, writeQ, writeActive, sqliteOpen, db, inMemoryItems,
                 rows, columns, hist>>

\* this.db.close() settles; scrapeStart returns this.stats.
CloseDone ==
  /\ pc = "closing"
  /\ db' = "closed"
  /\ pc' = "returned"
  /\ returned' = "stats"
  /\ UNCHANGED <<options, totalPages, concurrency, stats, done, error,
                 task, pageQ, writeQ, writeActive, sqliteOpen, inMemoryItems, rows, columns,
                 jsonFile, hist>>

\* The fs.outputJson call that finalize did not await completes.
JsonFlushDone ==
  /\ jsonFile = "writing"
  /\ jsonFile' = "written"
  /\ UNCHANGED <<options, pc, returned, totalPages, concurrency, stats,
                 done, error, task, pageQ, writeQ, writeActive, sqliteOpen, db,
                 inMemoryItems, rows, columns, hist>>

Next ==
  \/ ScrapeStart
  \/ ProbeDone
  \/ AdmitPage
  \/ \E p \in Pages : FetchListDone(p)
  \/ \E p \in Pages : FetchItemDone(p)
  \/ OpenStoreDone
  \/ WriteBegin
  \/ WriteRead
  \/ WriteEnd
  \/ Finalize
  \/ CloseDone
  \/ JsonFlushDone

Spec == Init /\ [][Next]_vars

\* Every collaborator call that was issued settles (fetchList, fetchItem, the
\* store's open, its statements, its close, the document's write), the two
\* queues start the work they hold when a slot is free, and the continuations
\* of settled promises run.
Fairness ==
  /\ WF_vars(ProbeDone)
  /\ WF_vars(AdmitPage)
  /\ \A p \in Pages : WF_vars(FetchListDone(p))
  /\ \A p \in Pages : WF_vars(FetchItemDone(p))
  /\ WF_vars(OpenStoreDone)
  /\ WF_vars(WriteBegin)
  /\ WF_vars(WriteRead)
  /\ WF_vars(WriteEnd)
  /\ WF_vars(Finalize)
  /\ WF_vars(CloseDone)
  /\ WF_vars(JsonFlushDone)

FairSpec == Spec /\ Fairness

TypeOK ==
  /\ options \in OptionSets
  /\ pc \in {"start", "probe", "await", "closing", "returned"}
  /\ returned \in {"none", "stats", "undefined"}
  /\ done \in BOOLEAN
  /\ error \in {"null", "quota error", "sqlite error"}
  /\ \A p \in Pages : task[p].st \in {"idle", "queued", "fetchList", "fetchItem",
                                      "write", "finished"}
  /\ db \in {"null", "open", "no table", "closed"}

\* ------------------------------------------------------------------- claims
\* The concurrency value the page-1 response stands for: its
\* requestsConcurrency, or 1 when that is absent or zero.
ReportedConcurrency ==
  IF hist.requestsConcurrency = 0 THEN 1 ELSE hist.requestsConcurrency

\* C1: at any moment the number of page tasks that have started and not yet
\* finished is at most the requestsConcurrency of the page-1 response (1 when
\* that is absent or zero).
ConcurrencyBound == Running(task) <= ReportedConcurrency

\* C1 witness: as many page tasks run as the bound allows and another waits.
ConcurrencyBoundWitness ==
  /\ Running(task) = ReportedConcurrency
  /\ pageQ # <<>>

\* C2: once the terminal flag is set, no page task issues another fetchItem.
NoItemFetchAfterDone == ~hist.itemAfterDone

\* C3: after a quota-exceeded (402) response no fetchList is issued, and a run
\* that saw one returns with a non-empty error slot.
QuotaStopsListFetches ==
  /\ ~hist.listAfterQuota
  /\ (pc = "returned" /\ hist.quota) => error # "null"

\* C3 witness: the run returned after a 402 response, and a page that was
\* still waiting for a slot finished without its list being fetched.
QuotaStopsListFetchesWitness ==
  /\ pc = "returned"
  /\ hist.quota
  /\ \E p \in Pages : task[p].st = "finished" /\ p > 1 /\ hist.fetchList[p] = 0

\* C4: every completed call of scrapeStart returns the stats record.
AlwaysReturnsStats == pc = "returned" => returned = "stats"

\* C5: when the page-1 fetch yields no result or reports no pages, no page
\* task is scheduled, fetchItem is never called, and the run ends with
\* stats.pages = 0 and stats.items = 0.
NoDataLeavesZeroStats ==
  (pc = "returned" /\ ~hist.quota /\ hist.totalPages = 0) =>
     /\ \A p \in Pages : task[p].st = "idle"
     /\ hist.fetchItem = 0
     /\ stats.pages = 0
     /\ stats.items = 0

\* C6: a run that ends with the terminal flag set has a non-empty error slot.
TerminalFlagHasError == (pc = "returned" /\ done) => error # "null"

\* C7: itemsSuccess <= items, pagesSuccess <= pages, and items never exceeds
\* the number of elements in the list responses received so far.
CountersOrdered ==
  /\ stats.itemsSuccess <= stats.items
  /\ stats.pagesSuccess <= stats.pages
  /\ stats.items <= hist.elementsSeen

\* C7 witness: some items and pages failed, others succeeded, and every
\* element received has been counted.
CountersOrderedWitness ==
  /\ 0 < stats.itemsSuccess
  /\ stats.itemsSuccess < stats.items
  /\ stats.pagesSuccess < stats.pages
  /\ stats.items = hist.elementsSeen

\* The pages a run is to fetch: the reported totalPages, capped by maxPages
\* when that option is set.
PageLimit ==
  IF options.maxPages # 0 /\ options.maxPages < hist.totalPages
  THEN options.maxPages
  ELSE hist.totalPages

\* C8: a run that returns without the terminal flag set has called fetchList
\* exactly once for each page of 1..min(totalPages, maxPages), page 1 included,
\* and never for another page.
EachPageFetchedOnce ==
  (pc = "returned" /\ ~done) =>
     \A p \in Pages : hist.fetchList[p] = IF p <= PageLimit THEN 1 ELSE 0

\* C8 witness: such a run in which maxPages cut the reported totalPages.
EachPageFetchedOnceWitness ==
  /\ pc = "returned"
  /\ ~done
  /\ options.maxPages # 0
  /\ options.maxPages < hist.totalPages

\* The run of C9: scrapeDetails off, T pages reported within maxPages, and
\* every list response so far a 200 response with the same number of
\* elements, each carrying an id.
UniformRun ==
  /\ pc = "returned"
  /\ ~options.scrapeDetails
  /\ hist.uniform >= 0
  /\ hist.totalPages >= 1
  /\ PageLimit = hist.totalPages

UniformStats ==
  /\ stats.pages = hist.totalPages
  /\ stats.items = hist.totalPages * hist.uniform
  /\ stats.itemsSuccess = hist.totalPages * hist.uniform
  /\ stats.requests = hist.totalPages

\* C9 as stated: such a run ends with pages = T, items = T*k,
\* itemsSuccess = T*k and requests = T.
ScenarioStats == UniformRun => UniformStats

\* C9 as amended: the same, for runs in which opening the sqlite store did
\* not fail.
ScenarioStatsStoreOk == (UniformRun /\ error # "sqlite error") => UniformStats

\* C9 witness: a run of two pages or more, each with at least one element.
ScenarioStatsStoreOkWitness ==
  /\ UniformRun
  /\ error # "sqlite error"
  /\ hist.totalPages >= 2
  /\ hist.uniform >= 1

\* C10: with skipItemRequestsStats set, a run ends with stats.requests equal
\* to the number of list fetches counted.
SkippedItemRequests ==
  (pc = "returned" /\ options.skipItemRequestsStats) =>
     stats.requests = hist.listCounted

\* C11: with outputType json, when scrapeStart returns after finalize the
\* document {stats, list} has been completely written.
DocumentWrittenAtReturn ==
  (pc = "returned" /\ returned = "stats" /\ options.outputType = "json") =>
     jsonFile = "written"

\* C12: with outputType sqlite, once scrapeStart has returned, a store whose
\* open succeeded is closed.
StoreClosedAtReturn == pc = "returned" => db # "open"

\* The step in which fetchList of page p settles, and the one in which
\* fetchItem of the current element of page p settles.
ListSettles(p) == task[p].st = "fetchList" /\ task'[p].st # "fetchList"

ItemSettles(p) == task[p].st = "fetchItem" /\ task'[p] # task[p]

TransientFailureStep ==
  \A p \in Pages :
    /\ (ListSettles(p) /\ hist'.last = "null list") =>
          /\ done' = done
          /\ error' = error
          /\ stats'.items = stats.items
          /\ writeQ' = writeQ
          /\ pageQ' = pageQ
          /\ task'[p].st = "finished"
          /\ \A q \in Pages \ {p} : task'[q] = task[q]
    /\ (ItemSettles(p) /\ hist'.last = "null item") =>
          /\ done' = done
          /\ error' = error
          /\ stats'.itemsSuccess = stats.itemsSuccess
          /\ writeQ' = writeQ
          /\ pageQ' = pageQ
          /\ \A q \in Pages \ {p} : task'[q] = task[q]
          /\ IF task[p].rest = <<>>
             THEN task'[p].st = "finished"
             ELSE task'[p].st = "fetchItem" /\ task'[p].rest = Tail(task[p].rest)

\* C13: a list fetch of a page task or an item fetch that settles to null
\* leaves this.done and this.error as they were; the failed page adds no item
\* and the failed item no write; the other page tasks and the queue are
\* untouched, and the page's loop goes on with its next element.
TransientFailureNotFatal == [][TransientFailureStep]_vars

\* C13 witness: an item fetch has just failed and the same page task is
\* fetching its next element, with the flag and the error slot clear.
TransientFailureNotFatalWitness ==
  /\ hist.last = "null item"
  /\ ~done
  /\ error = "null"
  /\ \E p \in Pages : task[p].st = "fetchItem"

\* The run of C14: details on, one page, one element, one fetchItem call,
\* which settled to null.
SingleNullItemRun ==
  /\ pc = "returned"
  /\ options.scrapeDetails
  /\ totalPages = 1
  /\ hist.elementsSeen = 1
  /\ hist.fetchItem = 1
  /\ hist.last = "null item"

NullItemStep ==
  \A p \in Pages :
    (ItemSettles(p) /\ hist'.last = "null item") =>
       /\ stats'.items = stats.items + 1
       /\ stats'.itemsSuccess = stats.itemsSuccess
       /\ writeQ' = writeQ

\* C14: with scrapeDetails on, an item whose fetchItem yields null is counted
\* once in items, not in itemsSuccess, and submits no write; a one-page run
\* with that single item ends with items = 1, itemsSuccess = 0, nothing stored.
NullItemCounted ==
  /\ [][NullItemStep]_vars
  /\ [](SingleNullItemRun =>
          /\ stats.items = 1
          /\ stats.itemsSuccess = 0
          /\ rows = <<>>
          /\ inMemoryItems = <<>>)

\* C14 witness: such a run has returned its stats.
NullItemCountedWitness == SingleNullItemRun /\ returned = "stats"

\* Remote calls outstanding: page tasks awaiting fetchList or fetchItem.
Outstanding == {p \in Pages : task[p].st \in {"fetchList", "fetchItem"}}

\* The writes of page p that are submitted and not yet ended.
PendingWrites(p) ==
  Len(SelectSeq(writeQ, LAMBDA w : w.page = p))
  + Len(SelectSeq(writeActive, LAMBDA w : w.page = p))

\* C15: after the probe at most ReportedConcurrency remote calls are
\* outstanding, and a page task issues a fetch only when it has no write of
\* its own pending (one item after the other).
OutstandingCallsBound ==
  pc \notin {"start", "probe"} =>
     /\ Cardinality(Outstanding) <= ReportedConcurrency
     /\ \A p \in Outstanding : PendingWrites(p) = 0
     /\ \A p \in Pages : PendingWrites(p) <= 1

\* C15 witness: two calls outstanding at once, a list fetch and an item fetch.
OutstandingCallsBoundWitness ==
  /\ Cardinality(Outstanding) = 2
  /\ ReportedConcurrency = 2
  /\ \E p, q \in Pages : task[p].st = "fetchList" /\ task[q].st = "fetchItem"

\* A step seen from the write queue: a write is submitted at the tail, or the
\* write at the head starts while none is in progress; the document grows by
\* the element of the write that starts, the table by the element of the write
\* in progress.
WriteOrderStep ==
  /\ \/ writeQ' = writeQ
     \/ \E w \in {[page |-> p, element |-> e] : p \in Pages, e \in DetailElements \cup Items} :
          writeQ' = Append(writeQ, w)
     \/ /\ writeQ # <<>>
        /\ writeActive = <<>>
        /\ writeQ' = Tail(writeQ)
        /\ writeActive' = <<Started(Head(writeQ))>>
  /\ writeActive' # writeActive =>
        \/ writeActive = <<>> /\ writeQ # <<>> /\ writeQ' = Tail(writeQ)
        \/ writeActive' = <<>>
        \/ writeActive' = [writeActive EXCEPT ![1].read = TRUE, ![1].known = columns]
  /\ inMemoryItems' # inMemoryItems =>
        /\ writeActive = <<>>
        /\ writeQ # <<>>
        /\ inMemoryItems' = Append(inMemoryItems, Head(writeQ).element)
        /\ writeQ' = Tail(writeQ)
  /\ rows' # rows =>
        /\ writeActive # <<>>
        /\ rows' = Append(rows, writeActive[1].element)
        /\ writeActive' = Tail(writeActive)

\* C16: at most one store write is in progress in every state, and writes are
\* applied in the order of their submission: they join the queue at its tail,
\* the one at its head starts when none is in progress, and the store grows by
\* the element of that write only.
WritesSerialized ==
  /\ [](Len(writeActive) <= 1)
  /\ [][WriteOrderStep]_vars

\* C16 witness: the write of one page task is in progress while the write of
\* another page task waits in the queue.
WritesSerializedWitness ==
  /\ Len(writeActive) = 1
  /\ writeQ # <<>>
  /\ writeActive[1].page # Head(writeQ).page

\* The field names of the rows of the table.
Fields(rs) == UNION {Keys(rs[i]) : i \in DOMAIN rs}

\* Every write that ended has stored its row.
NoWriteFailed == Len(rows) + Len(writeQ) + Len(writeActive) = hist.writes

\* C17 as stated: the column set only grows, no ADD COLUMN is issued for a
\* column that exists, and once the table exists its columns are the identity
\* column and the field names of the rows written.
ColumnsExact ==
  /\ [][columns \subseteq columns']_vars
  /\ [](~hist.alterExisting)
  /\ [](columns # {} => columns = {IdentityColumn} \cup Fields(rows))

\* C17 amended: the column set only grows, no ADD COLUMN is issued for a
\* column that exists, and once the table exists its columns include the
\* identity column and the field names of the rows written; they are exactly
\* those when no write has failed (a write that fails after its ALTER TABLE
\* leaves its columns behind without a row).
ColumnsGrow ==
  /\ [][columns \subseteq columns']_vars
  /\ [](~hist.alterExisting)
  /\ [](columns # {} =>
          /\ {IdentityColumn} \cup Fields(rows) \subseteq columns
          /\ NoWriteFailed => columns = {IdentityColumn} \cup Fields(rows))

\* C17 witness: two elements with different field names are stored and the
\* columns are the identity column and the union of their names.
ColumnsGrowWitness ==
  /\ Len(rows) = 2
  /\ Keys(rows[1]) # Keys(rows[2])
  /\ columns = {IdentityColumn} \cup Keys(rows[1]) \cup Keys(rows[2])
  /\ NoWriteFailed

\* The elements submitted to the store and not yet applied, and those stored.
Submitted ==
  [i \in 1..Len(writeQ) |-> writeQ[i].element] \o
  [i \in 1..Len(writeActive) |-> writeActive[i].element]

Stored == IF options.outputType = "json" THEN inMemoryItems ELSE rows

\* A write of the tabular store ends without a row.
WriteDropped ==
  /\ options.outputType = "sqlite"
  /\ writeActive # <<>>
  /\ writeActive' = <<>>
  /\ rows' = rows

\* What a dropped write leaves alone: the flag, the error slot and the count
\* of resolved items; the page task that awaited it visits its next element.
WriteDroppedStep ==
  WriteDropped =>
     /\ done' = done
     /\ error' = error
     /\ stats'.itemsSuccess >= stats.itemsSuccess
     /\ hist'.writes >= hist.writes
     /\ LET p == writeActive[1].page
        IN IF task[p].rest = <<>>
           THEN task'[p].st = "finished"
           ELSE /\ Len(task'[p].rest) < Len(task[p].rest)
                /\ IF options.scrapeDetails
                   THEN /\ task'[p].st = "fetchItem"
                        /\ hist'.fetchItem = hist.fetchItem + 1
                   ELSE stats'.items > stats.items

\* C18: onItemScraped is called once for each item counted in itemsSuccess
\* and for no other; what is stored or queued comes from an item with an id,
\* the stored rows are at most itemsSuccess (the document holds every write
\* that has started); a write that ends without a row keeps the item counted,
\* leaves the flag and the error slot as they were, and the page task goes on
\* with its next element.
OneWritePerResolvedItem ==
  /\ [](/\ hist.writes = stats.itemsSuccess
        /\ Len(Stored) + Len(writeQ)
             + (IF options.outputType = "json" THEN 0 ELSE Len(writeActive))
             <= stats.itemsSuccess
        /\ Len(rows) <= stats.itemsSuccess
        /\ options.outputType = "json" =>
              Len(inMemoryItems) + Len(writeQ) = stats.itemsSuccess
        /\ \A i \in DOMAIN Stored : Stored[i].id # ""
        /\ \A i \in DOMAIN Submitted : Submitted[i].id # "")
  /\ [][WriteDroppedStep]_vars

\* C18 witness: a run has returned with two items counted in itemsSuccess and
\* one row stored, the flag and the error slot clear.
OneWritePerResolvedItemWitness ==
  /\ returned = "stats"
  /\ options.outputType = "sqlite"
  /\ ~done
  /\ error = "null"
  /\ stats.itemsSuccess = 2
  /\ Len(rows) = 1
  /\ columns # {}

\* The step in which createSqliteDatabase catches an error.
OpenFailsStep ==
  (~hist.openFailed /\ hist'.openFailed) =>
     /\ done'
     /\ error' = "sqlite error"
     /\ db' \in {"null", "no table"}

\* C19: when the opening of the tabular store fails the flag is set and the
\* error slot takes the failure; from then on the flag stays set, an error
\* stays recorded, the table never has a row or a column, and the run returns
\* (every write submitted before or after the failure ends without a row).
OpenFailureFatal ==
  /\ [][OpenFailsStep]_vars
  /\ [](hist.openFailed => done /\ error # "null" /\ rows = <<>> /\ columns = {})
  /\ (hist.openFailed ~> (pc = "returned" /\ writeQ = <<>> /\ writeActive = <<>>))

\* C19 witness: the open has failed, an item was resolved and its write
\* dropped, and the run has returned its stats.
OpenFailureFatalWitness ==
  /\ hist.openFailed
  /\ returned = "stats"
  /\ stats.itemsSuccess >= 1
  /\ rows = <<>>
  /\ writeQ = <<>>
  /\ writeActive = <<>>

\* Nothing of the run is left unsettled: no page task queued or in flight, no
\* write queued or in progress.
AllSettled ==
  /\ pageQ = <<>>
  /\ writeQ = <<>>
  /\ writeActive = <<>>
  /\ \A p \in Pages : task[p].st \in {"idle", "finished"}

\* C20: when every call that was issued settles and the queues start what
\* they hold, a run that was started returns, and at its return no page task
\* and no write is left unsettled.
EventuallyReturns ==
  /\ (pc # "start") ~> (pc = "returned")
  /\ [](pc = "returned" => AllSettled)

\* C20 witness: a run over two pages has returned with the flag set, one of
\* its page tasks having ended without a list fetch.
EventuallyReturnsWitness ==
  /\ pc = "returned"
  /\ done
  /\ totalPages = 2
  /\ AllSettled
  /\ \E p \in Pages : task[p].st = "finished" /\ hist.fetchList[p] = 0

====
